---- MODULE Spec2Model ----
(***************************************************************************)
(* Model of the Cloudflare MCP server: the response truncator              *)
(* (src/src/truncate.ts), the sandboxed executors (src/src/executor.ts),   *)
(* the search / execute tool handlers with the account resolver            *)
(* (src/unnamed/part_000) and the $ref resolver of the build script        *)
(* (src/unnamed/part_001).                                                 *)
(*                                                                         *)
(* Text is a TLA+ string (a sequence of characters): Len is .length,       *)
(* \o is +, SubSeq(s, 1, n) is s.slice(0, n).                              *)
(***************************************************************************)
EXTENDS Integers, Sequences, FiniteSets, TLC

VARIABLES
    inv,        \* tool invocations: one record per in-flight handler call
    loader,     \* env.LOADER: worker id -> the worker built under that id
    uuidSeq,    \* how many values crypto.randomUUID() has handed out
    universe,   \* the deployment and its input domain (fixed by Init)
    tIn,        \* truncateResponse probe: the content passed in
    tOut,       \* truncateResponse probe: the completion of the call
    spec,       \* resolveRefs: the OpenAPI document
    seen,       \* resolveRefs: the Set of pointers shared by one resolution
    frames,     \* resolveRefs: the activations on the call stack, outermost first
    reg         \* resolveRefs: the call being made or the value being returned

resolver == <<spec, seen, frames, reg>>

server == <<inv, loader, uuidSeq, universe, tIn, tOut>>

vars == <<inv, loader, uuidSeq, universe, tIn, tOut, spec, seen, frames, reg>>

(***************************************************************************)
(* JavaScript values.  Every value is a record [t, v]: t is the type tag.  *)
(* An object's v is the sequence of its <<key, value>> properties in       *)
(* insertion order; an Error's v is its message.                           *)
(***************************************************************************)
Undefined == [t |-> "undefined", v |-> 0]

Null == [t |-> "null", v |-> 0]

Num(n) == [t |-> "number", v |-> n]

Str(s) == [t |-> "string", v |-> s]

Bool(b) == [t |-> "boolean", v |-> b]

Arr(items) == [t |-> "array", v |-> items]

Obj(props) == [t |-> "object", v |-> props]

Err(message) == [t |-> "Error", v |-> message]

\* A completed call: it returned a value or it threw one.
Return(value) == [kind |-> "return", value |-> value]

Throw(value) == [kind |-> "throw", value |-> value]

\* obj[key] for an object value: the last property of that name, or undefined.
Prop(obj, key) ==
    LET hits == {k \in 1..Len(obj.v) : obj.v[k][1] = key}
    IN  IF obj.t # "object" \/ hits = {} THEN Undefined
        ELSE obj.v[CHOOSE k \in hits : \A l \in hits : l <= k][2]

\* The TypeError V8 raises for a property read on undefined or null.
CannotRead(val, key) ==
    Err("Cannot read properties of " \o val.t \o " (reading '" \o key \o "')")

\* JavaScript truthiness of a value.
Truthy(val) ==
    CASE val.t \in {"undefined", "null"} -> FALSE
      [] val.t = "string" -> val.v # ""
      [] val.t = "number" -> val.v # 0
      [] val.t = "boolean" -> val.v
      [] OTHER -> TRUE

(***************************************************************************)
(* Text helpers.                                                           *)
(***************************************************************************)
\* haystack.includes(needle)
Includes(haystack, needle) ==
    \E k \in 0..(Len(haystack) - Len(needle)) :
        SubSeq(haystack, k + 1, k + Len(needle)) = needle

\* c.repeat(n)
RECURSIVE Repeat(_, _)
Repeat(c, n) ==
    IF n = 0 THEN ""
    ELSE IF n % 2 = 1 THEN c \o Repeat(c, n - 1)
    ELSE LET half == Repeat(c, n \div 2) IN half \o half

\* parts.join(sep)
RECURSIVE Join(_, _)
Join(parts, sep) ==
    IF Len(parts) = 0 THEN ""
    ELSE IF Len(parts) = 1 THEN parts[1]
    ELSE parts[1] \o sep \o Join(Tail(parts), sep)

\* The characters JSON.stringify escapes inside a string literal.
EscapeChar(c) ==
    CASE c = "\"" -> "\\\""
      [] c = "\\" -> "\\\\"
      [] c = "\n" -> "\\n"
      [] OTHER -> c

RECURSIVE Escape(_)
Escape(s) ==
    IF Len(s) = 0 THEN ""
    ELSE IF Len(s) = 1 THEN EscapeChar(s)
    ELSE LET mid == Len(s) \div 2
         IN  Escape(SubSeq(s, 1, mid)) \o Escape(SubSeq(s, mid + 1, Len(s)))

\* JSON.stringify(s) for a string s.
Quote(s) == "\"" \o Escape(s) \o "\""

\* String(val), as new Error(val) and template literals apply it.
RECURSIVE ToText(_)
ToText(val) ==
    CASE val.t = "string" -> val.v
      [] val.t = "number" -> ToString(val.v)
      [] val.t = "boolean" -> IF val.v THEN "true" ELSE "false"
      [] val.t = "Error" -> IF val.v = "" THEN "Error" ELSE "Error: " \o val.v
      [] val.t = "array" -> Join([k \in 1..Len(val.v) |->
                                   IF val.v[k].t \in {"undefined", "null"} THEN ""
                                   ELSE ToText(val.v[k])], ",")
      [] val.t = "object" -> "[object Object]"
      [] OTHER -> val.t

(***************************************************************************)
(* JSON.stringify(value, null, 2).  Serialize is the text of a value that  *)
(* has one, at indentation ind; an undefined array item is written null,   *)
(* an undefined property is left out.                                      *)
(***************************************************************************)
RECURSIVE Serialize(_, _)
Serialize(val, ind) ==
    CASE val.t \in {"undefined", "null"} -> "null"
      [] val.t = "number" -> ToString(val.v)
      [] val.t = "boolean" -> IF val.v THEN "true" ELSE "false"
      [] val.t = "string" -> Quote(val.v)
      [] val.t = "Error" -> "{}"
      [] val.t = "array" ->
            IF Len(val.v) = 0 THEN "[]"
            ELSE LET inner == ind \o "  "
                     item(k) == IF val.v[k].t = "undefined" THEN "null"
                                ELSE Serialize(val.v[k], inner)
                 IN  "[\n" \o Join([k \in 1..Len(val.v) |-> inner \o item(k)], ",\n")
                          \o "\n" \o ind \o "]"
      [] val.t = "object" ->
            LET inner == ind \o "  "
                kept == SelectSeq(val.v, LAMBDA p : p[2].t # "undefined")
            IN  IF Len(kept) = 0 THEN "{}"
                ELSE "{\n" \o Join([k \in 1..Len(kept) |->
                                      inner \o Quote(kept[k][1]) \o ": "
                                            \o Serialize(kept[k][2], inner)], ",\n")
                          \o "\n" \o ind \o "}"

\* JSON.stringify(val, null, 2): undefined for the value undefined.
JSONstringify(val) ==
    IF val.t = "undefined" THEN Undefined ELSE Str(Serialize(val, ""))

(***************************************************************************)
(* src/src/truncate.ts                                                     *)
(***************************************************************************)
CHARS_PER_TOKEN == 4

MAX_TOKENS == 6000

MAX_CHARS == MAX_TOKENS * CHARS_PER_TOKEN

\* Math.ceil(a / b) for naturals.
Ceil(a, b) == (a + b - 1) \div b

\* Number.prototype.toLocaleString() in the en-US locale of the Workers
\* runtime: the digits in groups of three, separated by commas.
RECURSIVE toLocaleString(_)
toLocaleString(n) ==
    IF n < 1000 THEN ToString(n)
    ELSE LET low == n % 1000
             pad == IF low < 10 THEN "00" ELSE IF low < 100 THEN "0" ELSE ""
         IN  toLocaleString(n \div 1000) \o "," \o pad \o ToString(low)

\* The marker appended to a truncated text.
Marker(estimatedTokens) ==
    "\n\n--- TRUNCATED ---\nResponse was ~" \o toLocaleString(estimatedTokens)
        \o " tokens (limit: " \o toLocaleString(MAX_TOKENS)
        \o "). Use more specific queries to reduce response size."

\* An estimate taken from the text after it is cut.
EstimatedTokensOfSlice(text) ==
    Ceil(Len(SubSeq(text, 1, MAX_CHARS)), CHARS_PER_TOKEN)

\* truncate.ts 13: the estimate, from the text before it is cut.
EstimatedTokens(text) == Ceil(Len(text), CHARS_PER_TOKEN)

\* truncateResponse(content): Return(text), or the TypeError of reading
\* .length of the undefined that JSON.stringify returned.
truncateResponse(content) ==
    LET text == IF content.t = "string" THEN content ELSE JSONstringify(content)
    IN  IF text.t = "undefined" THEN Throw(CannotRead(Undefined, "length"))
        ELSE IF Len(text.v) <= MAX_CHARS THEN Return(text)
        ELSE Return(Str(SubSeq(text.v, 1, MAX_CHARS)
                            \o Marker(EstimatedTokens(text.v))))

(***************************************************************************)
(* Inputs of the truncateResponse probe: strings and JSON values whose     *)
(* serialized length lies on both sides of MAX_CHARS.                      *)
(***************************************************************************)
MaxSmall == 3

MaxOver == 5

LongLength == 100000

\* The first n characters of pattern repeated.
Pattern(pattern, n) ==
    SubSeq(Repeat(pattern, Ceil(n, Len(pattern))), 1, n)

ProbeLengths ==
    (0..MaxSmall) \cup ((MAX_CHARS - MaxOver)..(MAX_CHARS + MaxOver)) \cup {LongLength}

ProbeStrings == {Pattern(p, n) : p \in {"x", "abc"}, n \in ProbeLengths}

ProbeValues ==
    {Undefined, Null, Num(0), Num(42), Bool(TRUE), Str("say \"hi\""),
     Arr(<<>>), Arr(<<Num(1), Undefined, Str("a")>>), Obj(<<>>),
     Obj(<<<<"success", Bool(TRUE)>>, <<"result", Arr(<<Num(7)>>)>>,
           <<"gone", Undefined>>>>)}
    \cup {Str(s) : s \in ProbeStrings}
    \cup {Obj(<<<<"result", Str(s)>>>>) : s \in ProbeStrings}

(***************************************************************************)
(* src/src/executor.ts: the two worker modules.  The template literals are *)
(* kept as text; ${...} is string interpolation.                           *)
(***************************************************************************)
\* executor.ts 28-31: the module text up to ${JSON.stringify(apiBase)}.
CodeWorkerHead ==
    "\n"
    \o "import { WorkerEntrypoint } from \"cloudflare:workers\";\n"
    \o "\n"
    \o "const apiBase = "

\* executor.ts 31-32: up to ${JSON.stringify(accountId)}.
CodeWorkerAccount ==
    ";\n"
    \o "const accountId = "

\* executor.ts 32-95: the request capability, up to ${code}.
CodeWorkerBody ==
    ";\n"
    \o "\n"
    \o "export default class CodeExecutor extends WorkerEntrypoint {\n"
    \o "  async evaluate(apiToken) {\n"
    \o "    const cloudflare = {\n"
    \o "      async request(options) {\n"
    \o "        const { method, path, query, body, contentType, rawBody } = options;\n"
    \o "\n"
    \o "        const url = new URL(apiBase + path);\n"
    \o "        if (query) {\n"
    \o "          for (const [key, value] of Object.entries(query)) {\n"
    \o "            if (value !== undefined) {\n"
    \o "              url.searchParams.set(key, String(value));\n"
    \o "            }\n"
    \o "          }\n"
    \o "        }\n"
    \o "\n"
    \o "        const headers = {\n"
    \o "          \"Authorization\": \"Bearer \" + apiToken,\n"
    \o "        };\n"
    \o "\n"
    \o "        if (contentType) {\n"
    \o "          headers[\"Content-Type\"] = contentType;\n"
    \o "        } else if (body && !rawBody) {\n"
    \o "          headers[\"Content-Type\"] = \"application/json\";\n"
    \o "        }\n"
    \o "\n"
    \o "        let requestBody;\n"
    \o "        if (rawBody) {\n"
    \o "          requestBody = body;\n"
    \o "        } else if (body) {\n"
    \o "          requestBody = JSON.stringify(body);\n"
    \o "        }\n"
    \o "\n"
    \o "        const response = await fetch(url.toString(), {\n"
    \o "          method,\n"
    \o "          headers,\n"
    \o "          body: requestBody,\n"
    \o "        });\n"
    \o "\n"
    \o "        const responseContentType = response.headers.get(\"content-type\") || \"\";\n"
    \o "\n"
    \o "        // Handle non-JSON responses (e.g., KV values)\n"
    \o "        if (!responseContentType.includes(\"application/json\")) {\n"
    \o "          const text = await response.text();\n"
    \o "          if (!response.ok) {\n"
    \o "            throw new Error(\"Cloudflare API error: \" + response.status + \" \" + text);\n"
    \o "          }\n"
    \o "          return { success: true, result: text };\n"
    \o "        }\n"
    \o "\n"
    \o "        const data = await response.json();\n"
    \o "\n"
    \o "        if (!data.success) {\n"
    \o "          const errors = data.errors.map(e => e.code + \": \" + e.message).join(\", \");\n"
    \o "          throw new Error(\"Cloudflare API error: \" + errors);\n"
    \o "        }\n"
    \o "\n"
    \o "        return data;\n"
    \o "      }\n"
    \o "    };\n"
    \o "\n"
    \o "    try {\n"
    \o "      const result = await ("

\* executor.ts 95-102: after ${code}.
CodeWorkerTail ==
    ")();\n"
    \o "      return { result, err: undefined };\n"
    \o "    } catch (err) {\n"
    \o "      return { result: undefined, err: err.message, stack: err.stack };\n"
    \o "    }\n"
    \o "  }\n"
    \o "}\n"
    \o "        "

\* executor.ts 129-132: the module text up to ${specJson}.
SearchWorkerHead ==
    "\n"
    \o "import { WorkerEntrypoint } from \"cloudflare:workers\";\n"
    \o "\n"
    \o "const spec = "

\* executor.ts 132-137: up to ${code}.
SearchWorkerBody ==
    ";\n"
    \o "\n"
    \o "export default class SearchExecutor extends WorkerEntrypoint {\n"
    \o "  async evaluate() {\n"
    \o "    try {\n"
    \o "      const result = await ("

\* executor.ts 137-144: after ${code}.
SearchWorkerTail ==
    ")();\n"
    \o "      return { result, err: undefined };\n"
    \o "    } catch (err) {\n"
    \o "      return { result: undefined, err: err.message, stack: err.stack };\n"
    \o "    }\n"
    \o "  }\n"
    \o "}\n"
    \o "        "

\* executor.ts 1, 119: JSON.stringify(spec) of the generated spec index.
specJson ==
    "{\"paths\":{\"/accounts\":{\"get\":{\"summary\":\"List Accounts\",\"tags\":[\"accounts\"]}}}}"

\* `${x}` for a value x.
Interpolate(val) == ToText(val)

\* A recipe that embeds the credential, as a module-level constant.
CodeWorkerSourceWithToken(apiBase, code, accountId, apiToken) ==
    CodeWorkerHead \o Interpolate(JSONstringify(apiBase))
        \o CodeWorkerAccount \o Interpolate(JSONstringify(accountId))
        \o ";\nconst apiToken = " \o Quote(apiToken)
        \o CodeWorkerBody \o code \o CodeWorkerTail

\* executor.ts 28-102: the "worker.js" of the code executor.
CodeWorkerSource(apiBase, code, accountId, apiToken) ==
    CodeWorkerHead \o Interpolate(JSONstringify(apiBase))
        \o CodeWorkerAccount \o Interpolate(JSONstringify(accountId))
        \o CodeWorkerBody \o code \o CodeWorkerTail

\* executor.ts 129-144: the "worker.js" of the search executor.
SearchWorkerSource(code) ==
    SearchWorkerHead \o specJson \o SearchWorkerBody \o code \o SearchWorkerTail

\* crypto.randomUUID(): the n-th value handed out; no value is handed out twice.
randomUUID(n) == "uuid-" \o ToString(n)

\* One id for every code worker.
CodeWorkerIdShared(uuid) == "cloudflare-api-worker"

\* executor.ts 21
CodeWorkerId(uuid) == "cloudflare-api-" \o uuid

\* executor.ts 122
SearchWorkerId(uuid) == "cloudflare-search-" \o uuid

\* env.LOADER.get(id, callback): the worker already loaded under id, or else
\* the one built from the callback's recipe.
LoaderGet(ldr, id, recipe) ==
    IF id \in DOMAIN ldr THEN ldr ELSE ldr @@ (id :> recipe)

\* The arguments of entrypoint.evaluate: executor.ts 108 passes the token,
\* executor.ts 150 passes nothing.
EvaluateArgs(tool, apiToken) ==
    IF tool = "execute" THEN <<apiToken>> ELSE <<>>

(***************************************************************************)
(* Inside the worker.                                                      *)
(***************************************************************************)
\* err.message for a caught value err that is neither undefined nor null.
MessageOf(err) ==
    CASE err.t = "Error" -> Str(err.v)
      [] err.t = "object" -> Prop(err, "message")
      [] OTHER -> Undefined

\* err.stack likewise.
StackOf(err) ==
    CASE err.t = "Error" -> Str(ToText(err) \o "\n    at evaluate (worker.js)")
      [] err.t = "object" -> Prop(err, "stack")
      [] OTHER -> Undefined

\* executor.ts 94-99 and 136-141: evaluate's try / catch around the script.
\* Reading .message of a thrown undefined or null throws inside the catch.
EvaluateResult(script) ==
    IF script.kind = "return"
    THEN Return(Obj(<<<<"result", script.value>>, <<"err", Undefined>>>>))
    ELSE IF script.value.t \in {"undefined", "null"}
    THEN Throw(CannotRead(script.value, "message"))
    ELSE Return(Obj(<<<<"result", Undefined>>,
                      <<"err", MessageOf(script.value)>>,
                      <<"stack", StackOf(script.value)>>>>))

\* An errors message that keeps only the first error.
EnvelopeErrorsFirstOnly(errors) ==
    IF Len(errors) = 0 THEN ""
    ELSE ToText(Prop(errors[1], "code")) \o ": " \o ToText(Prop(errors[1], "message"))

\* executor.ts 86: data.errors.map(e => e.code + ": " + e.message).join(", ")
EnvelopeErrors(errors) ==
    Join([k \in 1..Len(errors) |->
            ToText(Prop(errors[k], "code")) \o ": "
                \o ToText(Prop(errors[k], "message"))], ", ")

\* executor.ts 85-88 (and part_000 31-34): the throw for an envelope whose
\* success is falsy; .map of a missing errors list is a TypeError.
FailedEnvelope(data) ==
    LET errors == Prop(data, "errors")
    IN  IF errors.t # "array" THEN Throw(CannotRead(errors, "map"))
        ELSE Throw(Err("Cloudflare API error: " \o EnvelopeErrors(errors.v)))

\* executor.ts 72-90: cloudflare.request once fetch has answered.
cloudflareRequest(response) ==
    IF ~Includes(response.contentType, "application/json")
    THEN IF ~response.ok
         THEN Throw(Err("Cloudflare API error: " \o ToString(response.status)
                            \o " " \o response.body.v))
         ELSE Return(Obj(<<<<"success", Bool(TRUE)>>, <<"result", response.body>>>>))
    ELSE IF ~Truthy(Prop(response.body, "success"))
         THEN FailedEnvelope(response.body)
         ELSE Return(response.body)

\* executor.ts 106-114 and 148-156: the executor once evaluate has settled.
ExecutorResult(response) ==
    IF response.kind = "throw" THEN response
    ELSE IF Truthy(Prop(response.value, "err"))
    THEN Throw(Err(ToText(Prop(response.value, "err"))))
    ELSE Return(Prop(response.value, "result"))

(***************************************************************************)
(* src/unnamed/part_000: the account resolver and the tool handlers.       *)
(***************************************************************************)
\* A summary that lists every account.
AccountSummaryAll(result) ==
    Join([k \in 1..Len(result) |->
            ToText(Prop(result[k], "id")) \o " (" \o ToText(Prop(result[k], "name")) \o ")"],
         ", ")

\* part_000 44-47: the summary of the first five accounts.
AccountSummary(result) ==
    LET shown == SubSeq(result, 1, IF Len(result) < 5 THEN Len(result) ELSE 5)
        orElse(val, other) == IF val.t \in {"undefined", "null"} THEN other ELSE val
    IN  Join([k \in 1..Len(shown) |->
                ToText(orElse(Prop(shown[k], "id"), Str("unknown"))) \o " ("
                    \o ToText(orElse(Prop(shown[k], "name"), Str(""))) \o ")"], ", ")

\* A resolver that settles for the first account of the list.
resolveFirstAccount(response) ==
    LET result == Prop(response.body, "result")
    IN  IF result.t = "array" /\ Len(result.v) > 0
        THEN Return(Prop(result.v[1], "id"))
        ELSE Throw(Err("No Cloudflare accounts found for this token."))

\* part_000 19-51: resolveAccountId once fetch has answered.
resolveAccountId(response) ==
    IF ~Includes(response.contentType, "application/json")
    THEN Throw(Err("Cloudflare API error: " \o ToString(response.status)
                       \o " " \o response.body.v))
    ELSE LET data == response.body
             result == Prop(data, "result")
         IN  IF ~Truthy(Prop(data, "success"))
             THEN FailedEnvelope(data)
             ELSE IF result.t # "array" \/ Len(result.v) = 0
             THEN Throw(Err("No Cloudflare accounts found for this token."))
             ELSE IF Len(result.v) = 1 /\ Truthy(Prop(result.v[1], "id"))
             THEN Return(Prop(result.v[1], "id"))
             ELSE Throw(Err("Multiple Cloudflare accounts found. Provide account_id to select one. "
                                \o "Found: " \o AccountSummary(result.v)))

\* part_000 85-87
formatError(error) ==
    IF error.t = "Error" THEN error.v ELSE ToText(error)

\* A catch branch that forgets the error flag.
ErrorReplyUnflagged(error) ==
    [sent |-> TRUE, via |-> "catch", text |-> "Error: " \o formatError(error),
     isError |-> FALSE]

\* part_000 171-176, 210-215, 246-251: the catch branch of a handler.
ErrorReply(error) ==
    [sent |-> TRUE, via |-> "catch", text |-> "Error: " \o formatError(error),
     isError |-> TRUE]

\* part_000 168-170, 207-209, 244-245: the rest of the try block once the
\* executor has settled; truncateResponse is called inside the try.
HandlerReply(outcome) ==
    IF outcome.kind = "throw" THEN ErrorReply(outcome.value)
    ELSE LET text == truncateResponse(outcome.value)
         IN  IF text.kind = "throw" THEN ErrorReply(text.value)
             ELSE [sent |-> TRUE, via |-> "try", text |-> text.value.v,
                   isError |-> FALSE]

\* part_000 239-243
MissingBase == Err("Cloudflare API base is missing; provide account_id explicitly.")

(***************************************************************************)
(* src/unnamed/part_001: resolveRefs.  The recursion is run on an explicit *)
(* call stack: a frame is one activation of resolveRefs that is waiting    *)
(* for a nested call, and reg is the call about to be made or the value    *)
(* just returned.  seen is the one Set every nested call shares.           *)
(***************************************************************************)
\* s.indexOf(needle) + 1: 0 when needle does not occur.
IndexOf(s, needle) ==
    LET occurs == {at \in 1..(Len(s) - Len(needle) + 1) :
                      SubSeq(s, at, at + Len(needle) - 1) = needle}
    IN  IF occurs = {} THEN 0
        ELSE CHOOSE at \in occurs : \A other \in occurs : at <= other

\* s.replace(needle, with): the first occurrence only.
ReplaceAt(s, needle, with, pos) ==
    IF pos = 0 THEN s
    ELSE SubSeq(s, 1, pos - 1) \o with \o SubSeq(s, pos + Len(needle), Len(s))

ReplaceFirst(s, needle, with) == ReplaceAt(s, needle, with, IndexOf(s, needle))

\* s.split(sep) for a separator of one character: the text before the first
\* separator, between each two, and after the last.
Split(s, sep) ==
    LET cuts == {at \in 1..Len(s) : SubSeq(s, at, at) = sep}
        cut(j) == IF j = 0 THEN 0
                  ELSE IF j > Cardinality(cuts) THEN Len(s) + 1
                  ELSE CHOOSE at \in cuts : Cardinality({b \in cuts : b <= at}) = j
    IN  [j \in 1..(Cardinality(cuts) + 1) |-> SubSeq(s, cut(j - 1) + 1, cut(j) - 1)]

\* The positions of val, an array or a string, that the property name part
\* denotes: "0" is the first.
IndexNamed(val, part) == {n \in 1..Len(val.v) : ToString(n - 1) = part}

\* part_001 160: val?.[part]
Get(val, part) ==
    CASE val.t \in {"undefined", "null"} -> Undefined
      [] val.t = "object" -> Prop(val, part)
      [] val.t = "array" ->
            IF part = "length" THEN Num(Len(val.v))
            ELSE IF IndexNamed(val, part) = {} THEN Undefined
            ELSE val.v[CHOOSE n \in IndexNamed(val, part) : TRUE]
      [] val.t = "string" ->
            IF part = "length" THEN Num(Len(val.v))
            ELSE IF IndexNamed(val, part) = {} THEN Undefined
            ELSE Str(SubSeq(val.v, CHOOSE n \in IndexNamed(val, part) : TRUE,
                            CHOOSE n \in IndexNamed(val, part) : TRUE))
      [] OTHER -> Undefined

\* part_001 157-161: the value a pointer leads to in the document; next is
\* what the loop's assignment leaves in resolved.
RECURSIVE Walk(_, _)
Walk(resolved, parts) ==
    IF Len(parts) = 0 THEN resolved
    ELSE CHOOSE target \in {Walk(next, Tail(parts)) :
                               next \in {Get(resolved, Head(parts))}} : TRUE

\* part_001 157
PartsOf(ref) == Split(ReplaceFirst(ref, "#/", ""), "/")

\* part_001 152: '$ref' in record && typeof record.$ref === 'string'
HasRef(obj) == obj.t = "object" /\ Prop(obj, "$ref").t = "string"

\* A Set that never reports a member.
seenHasNothing(set, ref) == FALSE

\* part_001 154: seen.has(ref)
seenHas(set, ref) == ref \in set

\* part_001 154: { $circular: ref }
Circular(ref) == Obj(<<<<"$circular", Str(ref)>>>>)

\* The call stack the engine gives the build script, in frames.
MaxDepth == 16

\* pass counts the top-level calls: 1 for the call generateSpecFile makes, 2
\* when the value that call returned is given to resolveRefs again.
NoCall == [mode |-> "none", val |-> Undefined, obj |-> Undefined, pass |-> 1]

NoResolution ==
    /\ spec = Undefined
    /\ seen = {}
    /\ frames = <<>>
    /\ reg = NoCall

\* reg.val is being passed to resolveRefs.
Calling == reg.mode = "call"

\* reg.val is being returned to the activation on top of the stack.
Returning(kind) ==
    /\ reg.mode = "return"
    /\ Len(frames) > 0
    /\ frames[Len(frames)].kind = kind

Frame(kind, obj, ref) ==
    [kind |-> kind, obj |-> obj, i |-> 1, out |-> <<>>, ref |-> ref]

\* A nested call of resolveRefs on val from a new activation; the engine
\* throws a RangeError when the stack is full.
Nested(frame, val) ==
    IF Len(frames) < MaxDepth
    THEN /\ frames' = Append(frames, frame)
         /\ reg' = [reg EXCEPT !.mode = "call", !.val = val]
    ELSE /\ frames' = <<>>
         /\ reg' = [reg EXCEPT !.mode = "threw",
                               !.val = Err("Maximum call stack size exceeded")]

\* part_001 146-147: null, undefined and primitives are returned as they are.
ReturnPlain ==
    /\ Calling
    /\ reg.val.t \notin {"array", "object"}
    /\ reg' = [reg EXCEPT !.mode = "return"]
    /\ UNCHANGED <<spec, seen, frames, server>>

\* part_001 148: obj.map starts on an array.
MapArray ==
    /\ Calling
    /\ reg.val.t = "array"
    /\ IF Len(reg.val.v) = 0
       THEN reg' = [reg EXCEPT !.mode = "return"] /\ UNCHANGED frames
       ELSE Nested(Frame("array", reg.val, ""), reg.val.v[1])
    /\ UNCHANGED <<spec, seen, server>>

\* part_001 152-154: a pointer that is in seen is answered with the sentinel.
ReturnCircular ==
    /\ Calling
    /\ HasRef(reg.val)
    /\ seenHas(seen, Prop(reg.val, "$ref").v)
    /\ reg' = [reg EXCEPT !.mode = "return", !.val = Circular(Prop(reg.val, "$ref").v)]
    /\ UNCHANGED <<spec, seen, frames, server>>

\* part_001 155-162: a pointer that is not goes into seen and is followed.
FollowRef ==
    /\ Calling
    /\ HasRef(reg.val)
    /\ ~seenHas(seen, Prop(reg.val, "$ref").v)
    /\ \E ref \in {Prop(reg.val, "$ref").v} :
          \E parts \in {PartsOf(ref)} :
              /\ seen' = seen \cup {ref}
              /\ Nested(Frame("ref", reg.val, ref), Walk(spec, parts))
    /\ UNCHANGED <<spec, server>>

\* part_001 164-166: the copy of any other object starts.
CopyObject ==
    /\ Calling
    /\ reg.val.t = "object" /\ ~HasRef(reg.val)
    /\ IF Len(reg.val.v) = 0
       THEN reg' = [reg EXCEPT !.mode = "return", !.val = Obj(<<>>)] /\ UNCHANGED frames
       ELSE Nested(Frame("object", reg.val, ""), reg.val.v[1][2])
    /\ UNCHANGED <<spec, seen, server>>

\* part_001 148, 166-167: a nested call returned into obj.map or into the
\* loop over the entries, and there is another item or entry to resolve.
NextEntry ==
    /\ Returning("array") \/ Returning("object")
    /\ LET top == frames[Len(frames)]
           done == IF top.kind = "array" THEN reg.val
                   ELSE <<top.obj.v[top.i][1], reg.val>>
           next == IF top.kind = "array" THEN top.obj.v[top.i + 1]
                   ELSE top.obj.v[top.i + 1][2]
       IN  /\ top.i < Len(top.obj.v)
           /\ frames' = [frames EXCEPT ![Len(frames)] =
                            [top EXCEPT !.i = top.i + 1, !.out = Append(top.out, done)]]
           /\ reg' = [reg EXCEPT !.mode = "call", !.val = next]
    /\ UNCHANGED <<spec, seen, server>>

\* part_001 148, 169: the last item or entry is in; the array or the copy is
\* returned.
ReturnResult ==
    /\ Returning("array") \/ Returning("object")
    /\ LET top == frames[Len(frames)]
           done == IF top.kind = "array" THEN reg.val
                   ELSE <<top.obj.v[top.i][1], reg.val>>
           out == Append(top.out, done)
       IN  /\ top.i = Len(top.obj.v)
           /\ frames' = SubSeq(frames, 1, Len(frames) - 1)
           /\ reg' = [reg EXCEPT !.val = IF top.kind = "array" THEN Arr(out) ELSE Obj(out)]
    /\ UNCHANGED <<spec, seen, server>>

\* part_001 162: what the pointer's target resolved to is returned.
ReturnResolved ==
    /\ Returning("ref")
    /\ frames' = SubSeq(frames, 1, Len(frames) - 1)
    /\ UNCHANGED <<spec, seen, reg, server>>

\* part_001 191-193: the outermost call returns to generateSpecFile.
ReturnToCaller ==
    /\ reg.mode = "return"
    /\ frames = <<>>
    /\ reg' = [reg EXCEPT !.mode = "done"]
    /\ UNCHANGED <<spec, seen, frames, server>>

\* part_001 145: resolveRefs applied to the value it returned, with the
\* default seen, a new empty Set.
ResolveAgain ==
    /\ reg.mode = "done"
    /\ reg.pass = 1
    /\ reg' = [mode |-> "call", val |-> reg.val, obj |-> reg.val, pass |-> 2]
    /\ seen' = {}
    /\ UNCHANGED <<spec, frames, server>>

(***************************************************************************)
(* OpenAPI documents for resolveRefs: one operation, GET /zones, and the   *)
(* schemas its parameters, request body and responses point to.            *)
(***************************************************************************)
MaxCycle == 3

Pointer(name) == "#/components/schemas/" \o name

Ref(name) == Obj(<<<<"$ref", Str(Pointer(name))>>>>)

Document(schemas, operation) ==
    Obj(<<<<"paths", Obj(<<<<"/zones", Obj(<<<<"get", Obj(operation)>>>>)>>>>)>>,
          <<"components", Obj(<<<<"schemas", Obj(schemas)>>>>)>>>>)

\* part_001 174-181: the operation generateSpecFile is at.
OperationOf(doc) == Prop(Prop(Prop(doc, "paths"), "/zones"), "get")

SchemaName(k) == "S" \o ToString(k)

\* Schemas S1 .. Sn, each pointing to the next and Sn back to S1.
Cycle(n) ==
    Document([k \in 1..n |->
                 <<SchemaName(k),
                   Obj(<<<<"type", Str("object")>>,
                         <<"properties",
                           Obj(<<<<"next", Ref(SchemaName((k % n) + 1))>>>>)>>>>)>>],
             <<<<"summary", Str("List Zones")>>,
               <<"responses", Obj(<<<<"200", Ref("S1")>>>>)>>>>)

\* A schema that is nothing but a pointer to itself.
SelfRef ==
    Document(<<<<"Self", Ref("Self")>>>>,
             <<<<"requestBody", Ref("Self")>>,
               <<"responses", Obj(<<<<"200", Ref("Self")>>>>)>>>>)

\* A schema that points to itself from inside an array, and a pointer into
\* that array.
Tree ==
    Document(<<<<"Tree", Obj(<<<<"anyOf", Arr(<<Obj(<<<<"type", Str("string")>>>>),
                                                 Ref("Tree")>>)>>>>)>>>>,
             <<<<"parameters", Arr(<<>>)>>,
               <<"requestBody", Ref("Tree/anyOf/0")>>,
               <<"responses", Obj(<<<<"200", Ref("Tree")>>>>)>>>>)

\* No cycle: one schema pointed to twice, a pointer with no target, a null.
Shared ==
    Document(<<<<"Id", Obj(<<<<"type", Str("string")>>, <<"example", Null>>>>)>>,
               <<"List", Obj(<<<<"type", Str("array")>>, <<"items", Ref("Id")>>>>)>>>>,
             <<<<"parameters", Arr(<<Ref("Id"), Ref("Id")>>)>>,
               <<"requestBody", Obj(<<>>)>>,
               <<"responses", Obj(<<<<"200", Ref("List")>>, <<"404", Ref("Missing")>>>>)>>>>)

Documents == {Cycle(n) : n \in 1..MaxCycle} \cup {SelfRef, Tree, Shared}

\* part_001 191-193: the three things generateSpecFile has resolved.
Resolved3 == {"parameters", "requestBody", "responses"}

(***************************************************************************)
(* Caller scripts.  src is the text the caller sends; op, arg and onError  *)
(* say what that text does when the worker runs it.                        *)
(***************************************************************************)
Script(src, op, arg, onError) ==
    [src |-> src, op |-> op, arg |-> arg, onError |-> onError]

Return42 == Script("async () => 42", "return", Num(42), "")

ReturnNothing == Script("async () => {}", "return", Undefined, "")

ReturnLong ==
    Script("async () => 'x'.repeat(" \o ToString(MAX_CHARS + 1) \o ")", "return",
           Str(Repeat("x", MAX_CHARS + 1)), "")

ThrowBoom ==
    Script("async () => { throw new Error('boom') }", "throw", Err("boom"), "")

ThrowEmpty == Script("async () => { throw new Error('') }", "throw", Err(""), "")

ThrowString == Script("async () => { throw 'boom' }", "throw", Str("boom"), "")

ThrowNull == Script("async () => { throw null }", "throw", Null, "")

ThrowLong ==
    Script("async () => { throw new Error('e'.repeat(" \o ToString(2 * MAX_CHARS) \o ")) }",
           "throw", Err(Repeat("e", 2 * MAX_CHARS)), "")

RequestScripts ==
    Script("async () => cloudflare.request({ method: 'GET', path: '/accounts/' + accountId + '/workers/scripts' })",
           "request", Undefined, "propagate")

RequestOrCaught ==
    Script("async () => { try { return await cloudflare.request({ method: 'GET', path: '/accounts/' + accountId + '/workers/scripts' }) } catch (e) { return 'caught' } }",
           "request", Undefined, "catch")

\* A script whose promise never settles: it sleeps for a second, for ever.
NeverSettles ==
    Script("async () => { while (true) await new Promise(r => setTimeout(r, 1000)) }",
           "never", Undefined, "")

AllScripts ==
    {Return42, ReturnNothing, ReturnLong, ThrowBoom, ThrowEmpty, ThrowString,
     ThrowNull, ThrowLong, RequestScripts, RequestOrCaught, NeverSettles}

ScriptOf(src) == CHOOSE sc \in AllScripts : sc.src = src

(***************************************************************************)
(* The environment: what the upstream API may answer.                      *)
(***************************************************************************)
MaxAccounts == 6

ApiBase == Str("https://api.cloudflare.com/client/v4")

Envelope(success, result, errors) ==
    Obj(<<<<"success", Bool(success)>>, <<"result", result>>,
          <<"errors", Arr(errors)>>, <<"messages", Arr(<<>>)>>>>)

ApiError(code, message) ==
    Obj(<<<<"code", Num(code)>>, <<"message", Str(message)>>>>)

JsonResponse(status, body) ==
    [ok |-> status \in 200..299, status |-> status,
     contentType |-> "application/json; charset=utf-8", body |-> body]

TextResponse(status, contentType, text) ==
    [ok |-> status \in 200..299, status |-> status,
     contentType |-> contentType, body |-> Str(text)]

Account(k) ==
    Obj(<<<<"id", Str("acct" \o ToString(k))>>, <<"name", Str("Team " \o ToString(k))>>>>)

\* The first n accounts of the token.
Accounts(n) == [k \in 1..n |-> Account(k)]

NoIdAccount == Obj(<<<<"name", Str("Nameless")>>>>)

EmptyIdAccount == Obj(<<<<"id", Str("")>>, <<"name", Str("Blank")>>>>)

NoNameAccount == Obj(<<<<"id", Str("acct9")>>>>)

AuthFailure ==
    JsonResponse(403, Envelope(FALSE, Null, <<ApiError(10000, "Authentication error")>>))

AllAccountsResponses ==
    {JsonResponse(200, Envelope(TRUE, Arr(Accounts(n)), <<>>)) : n \in 0..MaxAccounts}
    \cup {JsonResponse(200, Envelope(TRUE, Arr(list), <<>>)) :
            list \in {<<NoIdAccount>>, <<EmptyIdAccount>>, <<NoNameAccount>>,
                      <<NoIdAccount, NoNameAccount>>}}
    \cup {JsonResponse(200, Envelope(TRUE, Null, <<>>)), AuthFailure,
          TextResponse(502, "text/html", "Bad Gateway")}

AllApiResponses ==
    {JsonResponse(200, Envelope(TRUE, Arr(<<Str("script-1")>>), <<>>)),
     AuthFailure,
     JsonResponse(400, Envelope(FALSE, Null,
         <<ApiError(7003, "Could not route"), ApiError(7000, "No route")>>)),
     JsonResponse(500, Envelope(FALSE, Null, <<>>)),
     TextResponse(200, "text/plain", "kv-value"),
     TextResponse(200, "application/octet-stream", Repeat("v", MAX_CHARS + 1)),
     TextResponse(500, "text/html", Repeat("<p>", MAX_CHARS \div 2))}

OneAccount == JsonResponse(200, Envelope(TRUE, Arr(Accounts(1)), <<>>))

TwoAccounts == JsonResponse(200, Envelope(TRUE, Arr(Accounts(2)), <<>>))

(***************************************************************************)
(* The universe of a behaviour: the deployment (env.CLOUDFLARE_API_BASE    *)
(* and the accountId given to createServer), whether tool calls overlap,   *)
(* and the input domain the calls draw from:                               *)
(*   "core": few inputs, for MaxInv overlapping calls;                     *)
(*   "seq":  every way of naming the account, for calls in sequence;       *)
(*   "full": every script and every upstream answer, for one call.         *)
(***************************************************************************)
Universes(domain, overlap, bases) ==
    [domain : {domain}, overlap : {overlap}, apiBase : bases,
     accountId : {Undefined, Str("acct-fixed")}]

NoUniverse ==
    [domain |-> "none", overlap |-> FALSE, apiBase |-> Undefined,
     accountId |-> Undefined]

Scripts ==
    CASE universe.domain = "full" -> AllScripts
      [] universe.domain \in {"core", "seq"} -> {Return42, RequestScripts}
      [] universe.domain = "live" ->
             {Return42, ThrowBoom, RequestScripts, RequestOrCaught, NeverSettles}
      [] OTHER -> {}

Tokens ==
    CASE universe.domain \in {"full", "live"} -> {"token-A"}
      [] universe.domain \in {"core", "seq"} -> {"token-A", "token-B"}
      [] OTHER -> {}

\* The account_id argument of execute: omitted, empty, or an id.
AccountArgs ==
    CASE universe.domain \in {"full", "seq"} -> {Undefined, Str(""), Str("acct1")}
      [] universe.domain \in {"core", "live"} -> {Undefined, Str("acct1")}
      [] OTHER -> {}

AccountsResponses ==
    CASE universe.domain = "full" -> AllAccountsResponses
      [] universe.domain \in {"seq", "live"} -> {OneAccount, TwoAccounts}
      [] universe.domain = "core" -> {OneAccount}
      [] OTHER -> {}

ApiResponses ==
    CASE universe.domain = "full" -> AllApiResponses
      [] universe.domain \in {"core", "seq", "live"} -> {AuthFailure}
      [] OTHER -> {}

(***************************************************************************)
(* The state machine.  One step is what a handler, or the worker it        *)
(* called, does between two awaits.                                        *)
(***************************************************************************)
MaxInv == 2

Invocations == 1..MaxInv

NoCompletion == [kind |-> "none", value |-> Undefined]

NoResponse == [ok |-> FALSE, status |-> 0, contentType |-> "", body |-> Undefined]

NoReply == [sent |-> FALSE, via |-> "", text |-> "", isError |-> FALSE]

Idle ==
    [pc |-> "idle", tool |-> "", apiToken |-> "", code |-> "", account_id |-> Undefined, resolved |-> Undefined,
     workerId |-> "", requests |-> <<>>, listing |-> NoResponse,
     answer |-> NoResponse, script |-> NoCompletion,
     response |-> NoCompletion, outcome |-> NoCompletion, reply |-> NoReply]

\* An invocation of this behaviour that is at pc.
At(i, pc) == i \in DOMAIN inv /\ inv[i].pc = pc

\* The transport delivers the next tool call to invocation i: invocations are
\* numbered in order of arrival, and where the behaviour's calls do not
\* overlap (universe.overlap is FALSE) the earlier ones have returned.
Arrives(i) ==
    /\ At(i, "idle")
    /\ \A j \in DOMAIN inv : j < i => inv[j].pc # "idle"
    /\ universe.overlap \/ \A j \in DOMAIN inv : j < i => inv[j].pc = "done"

\* A fetch as the upstream sees it.
Request(by, url, apiToken) ==
    [by |-> by, method |-> "GET", url |-> url,
     authorization |-> "Bearer " \o apiToken]

\* The handler has finished: it returns reply to the transport.
Finish(i, rec, outcome) ==
    inv' = [inv EXCEPT ![i] = [rec EXCEPT !.pc = "done", !.outcome = outcome,
                                          !.reply = HandlerReply(outcome)]]

\* executor.ts 21-108 / 122-150: from the executor's entry to its await of
\* evaluate: a fresh worker id, LOADER.get, getEntrypoint, the evaluate call.
Provision(i, rec, accountId) ==
    LET uuid == randomUUID(uuidSeq + 1)
        id == IF rec.tool = "execute" THEN CodeWorkerId(uuid) ELSE SearchWorkerId(uuid)
        source == IF rec.tool = "execute"
                  THEN CodeWorkerSource(universe.apiBase, rec.code, accountId, rec.apiToken)
                  ELSE SearchWorkerSource(rec.code)
        recipe == [source |-> source, tool |-> rec.tool, code |-> rec.code,
                   apiBase |-> universe.apiBase, accountId |-> accountId,
                   builtBy |-> i, calls |-> <<>>]
        loaded == LoaderGet(loader, id, recipe)
        call == [by |-> i, args |-> EvaluateArgs(rec.tool, rec.apiToken)]
    IN  /\ uuidSeq' = uuidSeq + 1
        /\ loader' = [loaded EXCEPT ![id].calls = Append(@, call)]
        /\ inv' = [inv EXCEPT ![i] = [rec EXCEPT !.pc = "running", !.workerId = id]]

\* part_000 167-170: the search tool is called.
CallSearch(i) ==
    /\ Arrives(i)
    /\ \E code \in Scripts, token \in Tokens :
          Provision(i, [Idle EXCEPT !.tool = "search", !.apiToken = token,
                                    !.code = code.src],
                    Undefined)
    /\ UNCHANGED <<universe, tIn, tOut, resolver>>

\* part_000 196-216: execute on a server created with an account id.
CallExecuteFixed(i) ==
    /\ Arrives(i)
    /\ Truthy(universe.accountId)
    /\ \E code \in Scripts, token \in Tokens :
          Provision(i, [Idle EXCEPT !.tool = "execute", !.apiToken = token,
                                    !.code = code.src,
                                    !.resolved = universe.accountId],
                    universe.accountId)
    /\ UNCHANGED <<universe, tIn, tOut, resolver>>

\* part_000 234-245: execute on a server created without one, up to the first
\* await: the resolver's fetch, or the executor's evaluate, or the throw.
CallExecuteAuto(i) ==
    /\ Arrives(i)
    /\ ~Truthy(universe.accountId)
    /\ \E code \in Scripts, token \in Tokens, account_id \in AccountArgs :
          LET rec == [Idle EXCEPT !.tool = "execute", !.apiToken = token,
                                  !.code = code.src, !.account_id = account_id]
          IN  IF account_id.t \in {"undefined", "null"} /\ Truthy(universe.apiBase)
              THEN /\ inv' = [inv EXCEPT ![i] =
                         [rec EXCEPT !.pc = "accounts",
                                     !.requests = <<Request("resolveAccountId",
                                         ToText(universe.apiBase) \o "/accounts",
                                         token)>>]]
                   /\ UNCHANGED <<loader, uuidSeq>>
              ELSE IF ~Truthy(account_id)
              THEN /\ Finish(i, rec, Throw(MissingBase))
                   /\ UNCHANGED <<loader, uuidSeq>>
              ELSE Provision(i, [rec EXCEPT !.resolved = account_id], account_id)
    /\ UNCHANGED <<universe, tIn, tOut, resolver>>

\* part_000 19-51 and 239-245: the account listing answers.
AccountsAnswer(i) ==
    /\ At(i, "accounts")
    /\ \E response \in AccountsResponses :
          LET got == resolveAccountId(response)
              rec == [inv[i] EXCEPT !.listing = response]
          IN  IF got.kind = "throw"
              THEN /\ Finish(i, rec, got)
                   /\ UNCHANGED <<loader, uuidSeq>>
              ELSE IF ~Truthy(got.value)
              THEN /\ Finish(i, [rec EXCEPT !.resolved = got.value], Throw(MissingBase))
                   /\ UNCHANGED <<loader, uuidSeq>>
              ELSE Provision(i, [rec EXCEPT !.resolved = got.value], got.value)
    /\ UNCHANGED <<universe, tIn, tOut, resolver>>

\* What the script's own try / catch makes of the settled request.
AfterRequest(sc, got) ==
    IF got.kind = "throw" /\ sc.onError = "catch" THEN Return(Str("caught")) ELSE got

\* The evaluate call of invocation i on worker w, and the token it was given.
CallOf(w, i) ==
    w.calls[CHOOSE k \in 1..Len(w.calls) :
                w.calls[k].by = i /\ \A l \in 1..Len(w.calls) : w.calls[l].by = i => l <= k]

\* executor.ts 36-99 / 135-141: the worker runs the script its module holds,
\* up to the script's completion or to the fetch inside cloudflare.request.
RunScript(i) ==
    /\ At(i, "running")
    /\ LET w == loader[inv[i].workerId]
           sc == ScriptOf(w.code)
           args == CallOf(w, i).args
           path == "/accounts/" \o ToText(w.accountId) \o "/workers/scripts"
           settle(done) ==
               inv' = [inv EXCEPT ![i].pc = "evaluated", ![i].script = done,
                                  ![i].response = EvaluateResult(done)]
       IN  CASE sc.op = "return" -> settle(Return(sc.arg))
             [] sc.op = "throw" -> settle(Throw(sc.arg))
             [] sc.op = "never" -> inv' = [inv EXCEPT ![i].pc = "pending"]
             [] sc.op = "request" /\ w.tool = "search" ->
                    settle(AfterRequest(sc, Throw(Err("cloudflare is not defined"))))
             [] sc.op = "request" /\ w.tool = "execute" /\ ~Truthy(w.apiBase) ->
                    settle(AfterRequest(sc,
                        Throw(Err("Invalid URL: " \o ToText(w.apiBase) \o path))))
             [] OTHER ->
                    inv' = [inv EXCEPT ![i].pc = "fetch",
                               ![i].requests = Append(@,
                                   Request("cloudflare.request",
                                           ToText(w.apiBase) \o path,
                                           IF Len(args) = 0 THEN "undefined" ELSE args[1]))]
    /\ UNCHANGED <<loader, uuidSeq, universe, tIn, tOut, resolver>>

\* executor.ts 66-99: the Cloudflare API answers the script's request.
ApiAnswer(i) ==
    /\ At(i, "fetch")
    /\ \E response \in ApiResponses :
          LET sc == ScriptOf(loader[inv[i].workerId].code)
              done == AfterRequest(sc, cloudflareRequest(response))
          IN  inv' = [inv EXCEPT ![i].pc = "evaluated", ![i].answer = response,
                                 ![i].script = done,
                                 ![i].response = EvaluateResult(done)]
    /\ UNCHANGED <<loader, uuidSeq, universe, tIn, tOut, resolver>>

\* executor.ts 108-114 / 150-156, then the handler's return.
Collect(i) ==
    /\ At(i, "evaluated")
    /\ Finish(i, inv[i], ExecutorResult(inv[i].response))
    /\ UNCHANGED <<loader, uuidSeq, universe, tIn, tOut, resolver>>

(***************************************************************************)
(* Specifications.                                                         *)
(***************************************************************************)
\* MaxInv invocations, concurrent or one after another, on one LOADER.
Init ==
    /\ inv = [i \in Invocations |-> Idle]
    /\ loader = <<>>
    /\ uuidSeq = 0
    /\ universe \in Universes("core", TRUE, {ApiBase})
    /\ tIn = Undefined
    /\ tOut = NoCompletion
    /\ NoResolution

Next ==
    \/ \E i \in Invocations : CallSearch(i)
    \/ \E i \in Invocations : CallExecuteFixed(i)
    \/ \E i \in Invocations : CallExecuteAuto(i)
    \/ \E i \in Invocations : AccountsAnswer(i)
    \/ \E i \in Invocations : RunScript(i)
    \/ \E i \in Invocations : ApiAnswer(i)
    \/ \E i \in Invocations : Collect(i)

Spec == Init /\ [][Next]_vars

\* MaxInv invocations, each after the one before it has returned.
InitSeq ==
    /\ inv = [i \in Invocations |-> Idle]
    /\ loader = <<>>
    /\ uuidSeq = 0
    /\ universe \in Universes("seq", FALSE, {ApiBase, Undefined})
    /\ tIn = Undefined
    /\ tOut = NoCompletion
    /\ NoResolution

SpecSeq == InitSeq /\ [][Next]_vars

\* One invocation, over the full input domain.
InitCall ==
    /\ inv = [i \in {1} |-> Idle]
    /\ loader = <<>>
    /\ uuidSeq = 0
    /\ universe \in Universes("full", FALSE, {ApiBase, Undefined})
    /\ tIn = Undefined
    /\ tOut = NoCompletion
    /\ NoResolution

SpecCall == InitCall /\ [][Next]_vars

\* One invocation whose script may never complete.
InitLive ==
    /\ inv = [i \in {1} |-> Idle]
    /\ loader = <<>>
    /\ uuidSeq = 0
    /\ universe \in Universes("live", FALSE, {ApiBase, Undefined})
    /\ tIn = Undefined
    /\ tOut = NoCompletion
    /\ NoResolution

\* Once a call has been delivered, the event loop runs every continuation
\* that is ready, and the Cloudflare API answers every fetch.
Progress ==
    \/ \E i \in Invocations : AccountsAnswer(i)
    \/ \E i \in Invocations : RunScript(i)
    \/ \E i \in Invocations : ApiAnswer(i)
    \/ \E i \in Invocations : Collect(i)

SpecLive == InitLive /\ [][Next]_vars /\ WF_vars(Progress)

\* truncateResponse applied to each probe input.
InitTruncate ==
    /\ inv = [i \in {1} |-> Idle]
    /\ loader = <<>>
    /\ uuidSeq = 0
    /\ universe = NoUniverse
    /\ tIn \in ProbeValues
    /\ tOut = NoCompletion
    /\ NoResolution

TruncateCall ==
    /\ tOut.kind = "none"
    /\ tOut' = truncateResponse(tIn)
    /\ UNCHANGED <<inv, loader, uuidSeq, universe, tIn, resolver>>

NextTruncate == TruncateCall

SpecTruncate == InitTruncate /\ [][NextTruncate]_vars

\* part_001 191-193: one call of resolveRefs by generateSpecFile, with the
\* default seen, an empty Set.
InitResolveRefs ==
    /\ inv = [i \in {1} |-> Idle]
    /\ loader = <<>>
    /\ uuidSeq = 0
    /\ universe = NoUniverse
    /\ tIn = Undefined
    /\ tOut = NoCompletion
    /\ spec \in Documents
    /\ seen = {}
    /\ frames = <<>>
    /\ \E field \in Resolved3 :
          reg = [mode |-> "call", val |-> Prop(OperationOf(spec), field),
                 obj |-> Prop(OperationOf(spec), field), pass |-> 1]

NextResolveRefs ==
    \/ ReturnPlain
    \/ MapArray
    \/ ReturnCircular
    \/ FollowRef
    \/ CopyObject
    \/ NextEntry
    \/ ReturnResult
    \/ ReturnResolved
    \/ ReturnToCaller

\* The script is one synchronous thread: a step that can be taken is taken.
SpecResolveRefs ==
    InitResolveRefs /\ [][NextResolveRefs]_vars /\ WF_vars(NextResolveRefs)

NextResolveTwice ==
    \/ ReturnPlain
    \/ MapArray
    \/ ReturnCircular
    \/ FollowRef
    \/ CopyObject
    \/ NextEntry
    \/ ReturnResult
    \/ ReturnResolved
    \/ ReturnToCaller
    \/ ResolveAgain

\* resolveRefs on a field of the operation, then on what that call returned.
SpecResolveTwice ==
    InitResolveRefs /\ [][NextResolveTwice]_vars /\ WF_vars(NextResolveTwice)

(***************************************************************************)
(* Claims.                                                                 *)
(***************************************************************************)
\* The workers LOADER holds, and the invocation that had each one built.
Workers == {loader[id] : id \in DOMAIN loader}

\* C1: the credential is not part of the module source handed to LOADER.get.
\* (a) The source handed over by the invocation now entering its worker
\* contains no token of the behaviour.  (b) Two workers of the same variant
\* built from the same script, account id and API base have the same source
\* text, whatever the tokens of the calls that built them.  (c) Every
\* evaluate call of the code executor carries exactly the caller's token, and
\* every evaluate call of the search executor carries no argument.
C1_CredentialOnlyInEvaluateArgument ==
    /\ \A i \in DOMAIN inv :
          inv[i].pc = "running" =>
              \A token \in Tokens :
                  ~Includes(loader[inv[i].workerId].source, token)
    /\ \A w1, w2 \in Workers :
          (w1.tool = w2.tool /\ w1.code = w2.code /\ w1.accountId = w2.accountId
              /\ w1.apiBase = w2.apiBase) => w1.source = w2.source
    /\ \A w \in Workers : \A k \in 1..Len(w.calls) :
          w.calls[k].args =
              IF w.tool = "execute" THEN <<inv[w.calls[k].by].apiToken>> ELSE <<>>

\* C1 witness: two code workers built from the same script and account id by
\* calls with different credentials, both invoked.
C1_Witness ==
    \E w1, w2 \in Workers :
        /\ w1.tool = "execute" /\ w2.tool = "execute"
        /\ w1.code = w2.code /\ w1.accountId = w2.accountId
        /\ Len(w1.calls) = 1 /\ Len(w2.calls) = 1
        /\ w1.calls[1].args # w2.calls[1].args

\* The text truncateResponse works on: a string itself, any other value's
\* JSON text.
SerializedText(content) ==
    IF content.t = "string" THEN content.v ELSE Serialize(content, "")

\* A number's text without its thousands separators.
RECURSIVE WithoutCommas(_)
WithoutCommas(s) ==
    IF Len(s) = 0 THEN ""
    ELSE (IF SubSeq(s, 1, 1) = "," THEN "" ELSE SubSeq(s, 1, 1))
             \o WithoutCommas(SubSeq(s, 2, Len(s)))

\* C4: for an input whose serialized text has at most 24000 characters the
\* output is that text; for a longer one it is the first 24000 characters,
\* then the marker, whose estimate is ceil(original length / 4) and whose
\* limit reads 6,000.  100,000 characters are reported as ~25,000 tokens.
C4_TruncateExact ==
    (tOut.kind # "none" /\ tIn.t # "undefined") =>
        LET text == SerializedText(tIn)
            before == "\n\n--- TRUNCATED ---\nResponse was ~"
            after == " tokens (limit: 6,000). Use more specific queries to reduce response size."
        IN  IF Len(text) <= 24000 THEN tOut = Return(Str(text))
            ELSE /\ tOut.kind = "return" /\ tOut.value.t = "string"
                 /\ LET out == tOut.value.v
                        estimate == SubSeq(out, 24000 + Len(before) + 1,
                                           Len(out) - Len(after))
                    IN  /\ SubSeq(out, 1, 24000) = SubSeq(text, 1, 24000)
                        /\ SubSeq(out, 24001, 24000 + Len(before)) = before
                        /\ SubSeq(out, Len(out) - Len(after) + 1, Len(out)) = after
                        /\ WithoutCommas(estimate) = ToString(Ceil(Len(text), 4))
                        /\ Len(text) = 100000 => estimate = "25,000"

\* C4 witness: a JSON value whose text is longer than the budget was cut, and
\* a string of exactly 24000 characters came back whole.
C4_Witness ==
    /\ tOut.kind = "return"
    /\ \/ /\ tIn.t = "object"
          /\ Len(Serialize(tIn, "")) > MAX_CHARS
          /\ Len(tOut.value.v) > MAX_CHARS
       \/ /\ tIn.t = "string"
          /\ Len(tIn.v) = MAX_CHARS
          /\ tOut.value = tIn

\* The longest marker truncateResponse can append to a text of up to
\* 10^9 characters.
MarkerBudget == Len(Marker(Ceil(1000000000, CHARS_PER_TOKEN)))

\* The invocations whose handler has returned.
Returned == {i \in DOMAIN inv : inv[i].pc = "done"}

\* C3: every text a tool returns, from the try block or from the catch
\* block, is at most MAX_CHARS characters plus the truncation marker.
C3_EveryPayloadBounded ==
    \A i \in Returned : Len(inv[i].reply.text) <= MAX_CHARS + MarkerBudget

\* C5: the executor's outcome is the script's: a script that returned v makes
\* the executor return v, and a script that threw makes the executor throw.
C5_ThrowNeverSuccess ==
    \A i \in Returned :
        /\ inv[i].script.kind = "return" => inv[i].outcome = Return(inv[i].script.value)
        /\ inv[i].script.kind = "throw" => inv[i].outcome.kind = "throw"

\* What went wrong in invocation i, if anything: the resolver or the executor
\* threw, the script threw, evaluate rejected, or the result has no text.
Failed(i) ==
    \/ inv[i].outcome.kind = "throw"
    \/ inv[i].script.kind = "throw"
    \/ inv[i].response.kind = "throw"
    \/ truncateResponse(inv[i].outcome.value).kind = "throw"

\* C7: a handler always returns a reply; the reply of an invocation in which
\* anything failed is "Error: " and a message, with the error flag; and a
\* reply carries the error flag exactly when the catch block produced it.
C7_FailuresBecomeErrorReplies ==
    \A i \in Returned :
        LET reply == inv[i].reply
        IN  /\ reply.sent
            /\ reply.isError <=> reply.via = "catch"
            /\ Failed(i) => reply.isError /\ SubSeq(reply.text, 1, 7) = "Error: "
            /\ inv[i].outcome.kind = "throw" =>
                   reply.text = "Error: " \o formatError(inv[i].outcome.value)
            /\ ~Failed(i) => ~reply.isError

\* C7 witness: a script threw an Error with an empty message, the executor
\* returned undefined, and the handler still answered with a flagged error.
C7_Witness ==
    \E i \in Returned :
        /\ inv[i].script = Throw(Err(""))
        /\ inv[i].outcome = Return(Undefined)
        /\ inv[i].reply.isError

\* The envelope an invocation's script got from cloudflare.request, if JSON.
GotEnvelope(i) ==
    /\ inv[i].pc \in {"evaluated", "done"}
    /\ inv[i].answer # NoResponse
    /\ Includes(inv[i].answer.contentType, "application/json")

\* "code: message" of each error, joined by ", ".
CodeMessagePairs(errors) ==
    Join([k \in 1..Len(errors) |->
            ToString(Prop(errors[k], "code").v) \o ": " \o Prop(errors[k], "message").v],
         ", ")

\* C8: a success:false envelope makes cloudflare.request throw "Cloudflare
\* API error: " and the code: message pairs; a script that does not catch it
\* makes execute reply "Error: Cloudflare API error: ..." with the error
\* flag; a success:true envelope is returned to the script whole.
C8_FailedEnvelopeSurfaces ==
    \A i \in DOMAIN inv : GotEnvelope(i) =>
        LET data == inv[i].answer.body
            sc == ScriptOf(inv[i].code)
            message == "Cloudflare API error: "
                           \o CodeMessagePairs(Prop(data, "errors").v)
        IN  IF Prop(data, "success") = Bool(TRUE)
            THEN inv[i].script = Return(data)
            ELSE /\ cloudflareRequest(inv[i].answer) = Throw(Err(message))
                 /\ sc.onError = "propagate" =>
                        /\ inv[i].script = Throw(Err(message))
                        /\ inv[i].pc = "done" =>
                               inv[i].reply = [sent |-> TRUE, via |-> "catch",
                                               text |-> "Error: " \o message,
                                               isError |-> TRUE]

\* C8 witness: the authentication failure of the specification's example,
\* surfaced by execute.
C8_Witness ==
    \E i \in Returned :
        /\ inv[i].answer = AuthFailure
        /\ inv[i].reply.text = "Error: Cloudflare API error: 10000: Authentication error"
        /\ inv[i].reply.isError

\* The invocations whose resolver got a success:true envelope with a list.
Listed == {i \in DOMAIN inv :
              /\ inv[i].listing # NoResponse
              /\ Includes(inv[i].listing.contentType, "application/json")
              /\ Prop(inv[i].listing.body, "success") = Bool(TRUE)
              /\ Prop(inv[i].listing.body, "result").t = "array"}

\* How the resolver of invocation i completed: its id went into the worker
\* the handler then had built, or its error ended the handler.
Resolved(i) ==
    IF inv[i].workerId # "" THEN Return(inv[i].resolved) ELSE inv[i].outcome

NoAccountFound == Throw(Err("No Cloudflare accounts found for this token."))

\* The ambiguous-account error for a list: at most its first 5 accounts, each
\* as id (name), "unknown" for an id that is missing, joined by ", ".
AmbiguousAccount(list) ==
    LET n == IF Len(list) > 5 THEN 5 ELSE Len(list)
        id(a) == IF Prop(a, "id").t = "string" THEN Prop(a, "id").v ELSE "unknown"
        name(a) == IF Prop(a, "name").t = "string" THEN Prop(a, "name").v ELSE ""
    IN  Throw(Err("Multiple Cloudflare accounts found. Provide account_id to select one. Found: "
                      \o Join([k \in 1..n |-> id(list[k]) \o " (" \o name(list[k]) \o ")"],
                              ", ")))

Reads(i) ==
    {k \in 1..Len(inv[i].requests) : inv[i].requests[k].by = "resolveAccountId"}

\* The execute invocations the transport has delivered.
Executes == {i \in DOMAIN inv : inv[i].tool = "execute"}

\* Invocation i had a worker built.
Built(i) == inv[i].workerId # ""

\* The resolver of invocation i was answered with exactly one account, whose
\* id the worker of i was built with.
BuiltFromListing(i) ==
    LET data == inv[i].listing.body
        list == Prop(data, "result")
    IN  /\ inv[i].listing # NoResponse
        /\ Prop(data, "success") = Bool(TRUE)
        /\ list.t = "array" /\ Len(list.v) = 1
        /\ loader[inv[i].workerId].accountId = Prop(list.v[1], "id")

\* C9 as stated: in the auto-resolve configuration a supplied account_id
\* means no resolver read and a unit built with that id; an omitted one means
\* exactly one account-listing read in each invocation, and a unit built only
\* after the resolver succeeded, with its id.  In the fixed configuration
\* there is no resolver read.
C9_ResolverUse ==
    \A i \in Executes :
        IF Truthy(universe.accountId) THEN Reads(i) = {}
        ELSE IF inv[i].account_id.t = "string"
        THEN /\ Reads(i) = {}
             /\ Built(i) /\ loader[inv[i].workerId].accountId = inv[i].account_id
        ELSE /\ Cardinality(Reads(i)) = 1
             /\ Built(i) => BuiltFromListing(i)

\* C9 amended: a supplied, non-empty account_id means no resolver read and a
\* unit built with that id; a supplied empty one means no read and no unit.
\* An omitted one, on a deployment with an API base, means exactly one
\* account-listing read in each invocation, sent before any unit is built,
\* and a unit built only after the resolver succeeded, with its id; without
\* an API base it means no read and no unit.  In the fixed configuration
\* there is no resolver read and the unit is built with the configured id.
C9_ResolverUseAmended ==
    \A i \in Executes :
        LET unbuilt == ~Built(i) /\ inv[i].pc = "done"
                           /\ inv[i].outcome = Throw(MissingBase)
        IN  IF Truthy(universe.accountId)
            THEN /\ Reads(i) = {}
                 /\ Built(i) /\ loader[inv[i].workerId].accountId = universe.accountId
            ELSE IF inv[i].account_id.t = "string"
            THEN /\ Reads(i) = {}
                 /\ IF inv[i].account_id.v # ""
                    THEN Built(i) /\ loader[inv[i].workerId].accountId = inv[i].account_id
                    ELSE unbuilt
            ELSE IF Truthy(universe.apiBase)
            THEN /\ Reads(i) = {1}
                 /\ inv[i].requests[1] =
                        Request("resolveAccountId", universe.apiBase.v \o "/accounts",
                                inv[i].apiToken)
                 /\ inv[i].pc = "accounts" => ~Built(i)
                 /\ Built(i) => BuiltFromListing(i)
            ELSE Reads(i) = {} /\ unbuilt

\* C9 witness: two calls in sequence, both without account_id, each made its
\* own account-listing read and had its worker built with the id it got.
C9_Witness ==
    \E i, j \in Executes \cap Returned :
        /\ i # j
        /\ inv[i].account_id = Undefined /\ inv[j].account_id = Undefined
        /\ Reads(i) = {1} /\ Reads(j) = {1}
        /\ BuiltFromListing(i) /\ BuiltFromListing(j)

\* The invocations that have reached their executor.
Provisioned == {i \in DOMAIN inv : Built(i)}

\* C10: every invocation that reaches its executor gets a worker under an id
\* no other invocation uses; that worker is built from this invocation's
\* script and account id, and its evaluate is called exactly once, by this
\* invocation, with this invocation's token if it is a code worker.
C10_OwnWorkerCalledOnce ==
    /\ \A i, j \in Provisioned : i # j => inv[i].workerId # inv[j].workerId
    /\ \A i \in Provisioned :
          LET w == loader[inv[i].workerId]
          IN  /\ w.builtBy = i
              /\ w.tool = inv[i].tool /\ w.code = inv[i].code
              /\ w.tool = "execute" => w.accountId = inv[i].resolved
              /\ w.calls = <<[by |-> i, args |-> EvaluateArgs(inv[i].tool, inv[i].apiToken)]>>
    /\ \A id \in DOMAIN loader : \E i \in Provisioned : inv[i].workerId = id

\* C10 witness: two execute calls with different tokens in flight at once,
\* one waiting for the API, the other entering its worker.
C10_Witness ==
    \E i, j \in Provisioned :
        /\ inv[i].pc = "fetch" /\ inv[j].pc = "running"
        /\ inv[i].tool = "execute" /\ inv[j].tool = "execute"
        /\ inv[i].apiToken # inv[j].apiToken

\* resolveRefs is being called on a reference whose pointer an activation
\* on the stack is in the middle of expanding: the reference closes a cycle.
ClosingRef ==
    /\ Calling
    /\ HasRef(reg.val)
    /\ \E k \in 1..Len(frames) :
          frames[k].kind = "ref" /\ frames[k].ref = Prop(reg.val, "$ref").v

\* What schema Sk of Cycle(n) resolves to when reached from S1.
RECURSIVE Unrolled(_, _)
Unrolled(k, n) ==
    Obj(<<<<"type", Str("object")>>,
          <<"properties",
            Obj(<<<<"next", IF k = n THEN Circular(Pointer("S1"))
                            ELSE Unrolled(k + 1, n)>>>>)>>>>)

\* C2: on a document with a cycle of references, a self-reference included,
\* resolveRefs returns; the call on the reference that closes the cycle
\* returns { $circular: pointer } without expanding or recording anything;
\* and the responses of a cycle S1 -> ... -> Sn -> S1 come back as the n
\* schemas nested in order with the sentinel for S1 inside the last.
C2_TerminatesWithSentinel ==
    /\ <>(reg.mode = "done")
    /\ [][ClosingRef =>
              /\ reg' = [reg EXCEPT !.mode = "return",
                                    !.val = Circular(Prop(reg.val, "$ref").v)]
              /\ frames' = frames
              /\ seen' = seen]_vars
    /\ [](reg.mode = "done" =>
              /\ \A n \in 1..MaxCycle :
                    spec = Cycle(n) /\ reg.obj.t = "object" =>
                        reg.val = Obj(<<<<"200", Unrolled(1, n)>>>>)
              /\ spec = SelfRef /\ reg.obj.t = "object" =>
                    reg.val \in {Circular(Pointer("Self")),
                                 Obj(<<<<"200", Circular(Pointer("Self"))>>>>)})

\* C2 witness: the responses of the longest cycle have been resolved, every
\* schema of the cycle was expanded, and the result holds the sentinel.
C2_Witness ==
    /\ reg.mode = "done"
    /\ spec = Cycle(MaxCycle)
    /\ seen = {Pointer(SchemaName(k)) : k \in 1..MaxCycle}
    /\ Includes(Serialize(reg.val, ""), "\"$circular\": \"#/components/schemas/S1\"")


RECURSIVE FullyResolved(_, _)
\* val with every reference node replaced by the fully resolved subtree of
\* its target in doc; defined for documents without reference cycles.
FullyResolved(val, doc) ==
    IF val.t = "array"
    THEN Arr([k \in 1..Len(val.v) |-> FullyResolved(val.v[k], doc)])
    ELSE IF val.t # "object" THEN val
    ELSE IF HasRef(val)
    THEN FullyResolved(Walk(doc, PartsOf(Prop(val, "$ref").v)), doc)
    ELSE Obj([k \in 1..Len(val.v) |->
                 <<val.v[k][1], FullyResolved(val.v[k][2], doc)>>])

RECURSIVE HoldsRef(_)
\* Some node of val is a reference node.
HoldsRef(val) ==
    IF val.t = "array" THEN \E k \in 1..Len(val.v) : HoldsRef(val.v[k])
    ELSE IF val.t # "object" THEN FALSE
    ELSE HasRef(val) \/ \E k \in 1..Len(val.v) : HoldsRef(val.v[k][2])

\* The documents of the model in which no pointer leads back to itself.
Acyclic == {Shared}

\* C11: for a document with no reference cycles, resolveRefs returns the input
\* with every reference node replaced by the fully resolved subtree of its
\* target (so the same value every time), the value it returns holds no
\* reference node, and resolving that value again returns it unchanged.
C11_AcyclicFullyInlined ==
    (spec \in Acyclic /\ reg.mode = "done") =>
        /\ ~HoldsRef(reg.val)
        /\ reg.pass = 1 => reg.val = FullyResolved(reg.obj, spec)
        /\ reg.pass = 2 => reg.val = reg.obj

\* The parts of C11 that do not depend on what a reference is replaced by.
C11_StableAndFreeOfRefs ==
    (spec \in Acyclic /\ reg.mode = "done") =>
        /\ ~HoldsRef(reg.val)
        /\ reg.pass = 2 => reg.val = reg.obj

\* C12: truncateResponse never fails: whatever value the caller script produced,
\* undefined included, the call completes by returning a text, never by
\* throwing.
C12_TruncateNeverFails ==
    tOut.kind # "none" => (tOut.kind = "return" /\ tOut.value.t = "string")

\* What C12 says of every value, for the values JSON.stringify has a text for.
C12_FailsOnlyOnUndefined ==
    tOut.kind # "none" =>
        IF tIn.t = "undefined"
        THEN tOut = Throw(CannotRead(Undefined, "length"))
        ELSE tOut.kind = "return" /\ tOut.value.t = "string"

\* The pointers followed so far that lead to nothing in the document.
Dangling == {ref \in seen : Walk(spec, PartsOf(ref)).t = "undefined"}

\* C13: when a pointer is malformed or has no target in the document, the
\* resolution aborts with an error: no call of resolveRefs that followed such
\* a pointer completes and hands a value back to generateSpecFile.
C13_MissingTargetAborts ==
    reg.mode = "done" => Dangling = {}

\* What the build does instead: the reference is replaced by undefined, which
\* JSON.stringify leaves out of the written artifact.
C13_MissingTargetLeftOut ==
    (reg.mode = "done" /\ Dangling # {}) =>
        /\ spec = Shared
        /\ reg.obj = Prop(OperationOf(Shared), "responses")
        /\ Prop(reg.val, "404") = Undefined
        /\ ~Includes(JSONstringify(reg.val).v, "404")

\* The pointers whose resolution has been entered and has not returned yet.
ActiveChain ==
    {frames[k].ref : k \in {j \in 1..Len(frames) : frames[j].kind = "ref"}}

\* C14: throughout a top-level call, seen holds exactly the pointers being
\* resolved on the active ancestor chain; so when the parameters of an acyclic
\* document point to the same schema twice, both are inlined.
C14_SeenIsActiveChain ==
    /\ reg.mode \in {"call", "return", "done"} => seen = ActiveChain
    /\ (/\ reg.mode = "done"
        /\ spec = Shared
        /\ reg.obj = Prop(OperationOf(Shared), "parameters"))
           => reg.val = Arr(<<Walk(Shared, PartsOf(Pointer("Id"))),
                              Walk(Shared, PartsOf(Pointer("Id")))>>)

\* What the code keeps instead: seen only grows, and holds every pointer
\* followed since the top-level call began.
C14_SeenOnlyGrows ==
    /\ [][seen \subseteq seen']_vars
    /\ [](ActiveChain \subseteq seen)

\* C15: every invocation that has been delivered eventually returns a reply
\* to the transport, even when the caller script never completes: the wait for
\* evaluate ends and the invocation does not stay pending.
C15_EveryInvocationReturns ==
    \A i \in Invocations :
        (i \in DOMAIN inv /\ inv[i].pc # "idle") ~> At(i, "done")

\* What holds instead: an invocation returns unless its script never settles,
\* and then it waits at the await of evaluate for ever.
C15_ReturnsUnlessScriptNeverSettles ==
    /\ \A i \in Invocations :
           (i \in DOMAIN inv /\ inv[i].pc # "idle")
               ~> (At(i, "done") \/ At(i, "pending"))
    /\ \A i \in Invocations : [](At(i, "pending") => [](At(i, "pending")))
    /\ [](\A i \in DOMAIN inv :
             inv[i].pc = "pending" => inv[i].code = NeverSettles.src)

====
